---- MODULE Spec2Model ----
(***************************************************************************)
(* The task scheduler of tachyon (src/runner.go): the two-phase Runner,    *)
(* runTask and its four dispatch modes, the item loop and ModuleRun,       *)
(* together with the Future / FutureScope / AsyncAction primitives it      *)
(* calls.                                                                  *)
(*                                                                         *)
(* A Play is an input.  Its tasks are drawn one at a time from TaskShapes  *)
(* when the controlling thread reaches them (the loop variable `task`),    *)
(* and the sub-tasks of a Module from SubShapes.                           *)
(***************************************************************************)
EXTENDS Integers, Sequences, FiniteSets

\* ------------------------------------------------------------------ bounds
NumPlays == 2      \* plays handed to NewRunner
MaxTasks == 2      \* tasks the plays declare, all plays together
MaxItems == 2      \* longest item list
ModLen   == 1      \* tasks declared by a module
MaxBg    == 2      \* futures and async actions dispatched in one run
MaxMods  == 1      \* module-backed tasks in one run

\* ------------------------------------------------------------------ inputs
\* play.Handlers, by name: the first play declares both, the others none.
Handlers(p)  == IF p = 1 THEN <<"h1", "h2">> ELSE <<>>
ItemVals     == {"a", "b"}

Outcomes == {"ok", "fail"}          \* what a Command's Run returns: (res, nil) or (nil, err)

SeqsUpTo(S, n) == UNION {[1..k -> S] : k \in 0..n}

\* A task as runTask sees it.
\*   when     "none": no When clause; "err": its expansion fails; otherwise the
\*            text the clause expands to
\*   hasItems task.Items() # nil, and items its values
\*   err      "expand": expanding name or args fails, "resolve": MakeCommand
\*            fails; errAt is the item (1 for a plain task) at which it does
\*   cmd      "builtin", "module" (the name is a key of play.Modules) or
\*            "modbad" (a module whose args ParseSimpleMap rejects)
\*   outs     the outcome of each execution of the command on the calling
\*            thread (a command run in the background returns either)
\*   reads    the args template names the future "f1"
Shape(w, hi, it, e, ea, c, o, f, a, r, n, rd) ==
  [when |-> w, hasItems |-> hi, items |-> it, err |-> e, errAt |-> ea, cmd |-> c,
   outs |-> o, future |-> f, async |-> a, register |-> r, notify |-> n, reads |-> rd]

NoTask == Shape("none", FALSE, <<>>, "none", 1, "nop", <<>>, "", FALSE, "", {}, FALSE)

FalseTexts == {"", "false", "no"}

\* The modifiers Future, Async, Register and Notify: none, each alone, all.
Modifiers ==
  {<<"", FALSE, "", {}>>, <<"f1", FALSE, "", {}>>, <<"", TRUE, "", {}>>,
   <<"", FALSE, "r", {}>>, <<"", FALSE, "", {"h1"}>>, <<"f1", TRUE, "r", {"h1"}>>}

\* Tasks whose When clause expands to a false text.
SkippedShapes ==
  {Shape(w, hi, IF hi THEN <<"a", "b">> ELSE <<>>, "none", 1, "builtin",
         IF hi THEN <<"ok", "ok">> ELSE <<"ok">>, m[1], m[2], m[3], m[4], FALSE) :
     w \in FalseTexts, hi \in BOOLEAN, m \in Modifiers}

\* Plain tasks running a builtin synchronously.
SyncShapes ==
  {Shape("none", FALSE, <<>>, "none", 1, "builtin", <<o>>, "", FALSE, m[1], m[2], FALSE) :
     o \in Outcomes,
     m \in {<<"", {}>>, <<"", {"h1"}>>, <<"r", {"h1"}>>, <<"", {"h1", "h2"}>>}}
  \cup
  {Shape("true", FALSE, <<>>, "none", 1, "builtin", <<o>>, "", FALSE, "", {"h1"}, rd) :
     o \in Outcomes, rd \in BOOLEAN}

\* The outcomes of an item loop: every execution succeeds, every one fails, or
\* the first fails and the others succeed.
ItemOuts(n) ==
  {[k \in 1..n |-> "ok"], [k \in 1..n |-> "fail"],
   [k \in 1..n |-> IF k = 1 THEN "fail" ELSE "ok"]}

\* Item loops.
ItemShapes ==
  {Shape("none", TRUE, it, "none", 1, "builtin", o, m[1], m[2], m[3], m[4], FALSE) :
     it \in SeqsUpTo(ItemVals, MaxItems), o \in UNION {ItemOuts(n) : n \in 0..MaxItems},
     m \in {<<"", FALSE, "", {}>>}}
  \cup
  {Shape("none", TRUE, it, "none", 1, "builtin", o, "f1", TRUE, "r", {"h1"}, FALSE) :
     it \in {[k \in 1..MaxItems |-> IF k = 1 THEN "b" ELSE "a"]}, o \in ItemOuts(MaxItems)}

\* Tasks that raise a scheduler-fatal error.
FatalShapes ==
  {Shape("err", hi, IF hi THEN <<"a">> ELSE <<>>, "none", 1, "builtin", <<"ok">>,
         "", FALSE, "", {"h1"}, FALSE) : hi \in BOOLEAN}
  \cup
  {Shape("none", FALSE, <<>>, e, 1, "builtin", <<"ok">>, m[1], m[2], "", {"h1"}, FALSE) :
     e \in {"expand", "resolve"}, m \in {<<"", FALSE>>, <<"f1", TRUE>>}}
  \cup
  {Shape("none", TRUE, it, e, Len(it), "builtin", [k \in 1..Len(it) |-> "ok"],
         "", FALSE, "", {"h1"}, FALSE) :
     it \in {[k \in 1..MaxItems |-> "b"]}, e \in {"expand", "resolve"}}

\* Tasks dispatched to the background, and tasks running a module.
BgShapes ==
  {Shape("none", FALSE, <<>>, "none", 1, c, <<"ok">>, m[1], m[2], "", {"h1"}, FALSE) :
     c \in {"builtin", "module", "modbad"},
     m \in {<<"f1", FALSE>>, <<"", TRUE>>, <<"f1", TRUE>>, <<"", FALSE>>}}

WellFormed(t) ==
  /\ t.hasItems => Len(t.outs) = Len(t.items)
  /\ ~t.hasItems => t.items = <<>> /\ Len(t.outs) = 1

TaskShapes ==
  {t \in SkippedShapes \cup SyncShapes \cup ItemShapes \cup FatalShapes \cup BgShapes :
     WellFormed(t)}

\* The tasks of a module: builtins, without item lists.
SubShapes ==
  {Shape("none", FALSE, <<>>, "none", 1, "builtin", <<"ok">>, "", FALSE, "", {"h2"}, FALSE),
   Shape("none", FALSE, <<>>, "none", 1, "builtin", <<"fail">>, "", FALSE, "", {"h2"}, FALSE),
   Shape("none", FALSE, <<>>, "none", 1, "builtin", <<"ok">>, "", FALSE, "", {}, TRUE),
   Shape("false", FALSE, <<>>, "none", 1, "builtin", <<"ok">>, "", FALSE, "", {"h2"}, FALSE),
   Shape("none", FALSE, <<>>, "expand", 1, "builtin", <<"ok">>, "", FALSE, "", {}, FALSE),
   Shape("none", FALSE, <<>>, "none", 1, "builtin", <<"ok">>, "", TRUE, "", {"h2"}, FALSE),
   Shape("none", FALSE, <<>>, "none", 1, "builtin", <<"ok">>, "f1", FALSE, "", {}, FALSE),
   Shape("none", FALSE, <<>>, "none", 1, "builtin", <<"ok">>, "", FALSE, "r", {}, FALSE)}

\* The tasks a play declares as handlers.
HandlerShapes ==
  {Shape("none", FALSE, <<>>, "none", 1, "builtin", <<"ok">>, "", FALSE, "", {"h2"}, FALSE),
   Shape("none", FALSE, <<>>, "none", 1, "builtin", <<"fail">>, "", FALSE, "", {"h2"}, FALSE),
   Shape("none", FALSE, <<>>, "none", 1, "builtin", <<"ok">>, "", FALSE, "", {}, TRUE),
   Shape("no", FALSE, <<>>, "none", 1, "builtin", <<"ok">>, "", FALSE, "", {"h2"}, FALSE),
   Shape("none", FALSE, <<>>, "expand", 1, "builtin", <<"ok">>, "", FALSE, "", {}, FALSE),
   Shape("none", FALSE, <<>>, "none", 1, "builtin", <<"ok">>, "", TRUE, "", {"h2"}, FALSE),
   Shape("none", FALSE, <<>>, "none", 1, "builtin", <<"ok">>, "f1", FALSE, "", {"h2"}, FALSE)}

\* ------------------------------------------------------------------- state
VARIABLES
  pc,          \* where Run is: "idle", "tasks", "barrier", "handlers", "done",
               \* "aborted" (Run returned an error), "panic" (the process died)
  play, idx,   \* the loop variables of Run: play.Tasks[idx] or play.Handlers[idx]
  stage,       \* "fetch": at the head of the task loop; "module": inside a
               \* ModuleRun.Run called synchronously; "ran": runTask has returned
  task,        \* the task runTask was last called with
  execd,       \* the command executions of that call, in order
  frame,       \* the module task ModuleRun.Run is at on the controlling thread
  Results,     \* r.Results
  to_notify,   \* r.to_notify
  wait,        \* r.wait, the WaitGroup's counter
  registered,  \* what the Register name "r" is bound to in the scope
  fsreg,       \* the futures map of each FutureScope: the future under "f1", or 0
  futs,        \* every Future created, in creation order
  acts,        \* every AsyncAction created, in creation order
  lsn,         \* the AsyncAction handleAsync has received from r.async, or 0
  report,      \* the phase hooks the Reporter has seen
  hruns,       \* how often runTask was called for each declared handler
  ntasks,      \* how many tasks of the plays runTask has been called for
  nmods,       \* how many of them were module-backed
  fatal,       \* some call of runTask returned a scheduler-fatal error
  ps,          \* a PriorityScope under test, apart from the run: its overlay, its
               \* fallback scope, and the last call made on it
  sh,          \* a process under test, apart from the run: how it ended, what it
               \* wrote, and what runCmd returned for it
  cp           \* a copy under test, apart from the run: the file system, the
               \* command, where CopyCmd.Run is, and what it returned

ctl    == <<pc, play, idx, stage, task, execd, frame, report, hruns, ntasks, nmods>>
shared == <<Results, to_notify, wait, registered, fsreg, futs, acts, lsn, fatal>>
pure   == <<ps, sh, cp>>
vars   == <<ctl, shared, pure>>

\* ------------------------------------------------------------ scopes, results
\* A Scope, as far as the templates of the tasks go: the bindings of `item` and
\* of the future name `f1`.
PlayVars == [item |-> "", f1 |-> ""]

NewNestedScope(s) == s

SetVar(s, k, v) == [s EXCEPT ![k] = v]

\* The template engine: the text with the scope's bindings filled in.
ExpandVars(s, text) == <<text, s.item, s.f1>>

\* boolify without its "no" case.
boolify_NoIsTrue(str) == str \notin {"", "false"}

boolify(str) == str \notin {"", "false", "no"}

\* AddNotify making a new map for the name.
AddNotify_Fresh(ntf, n) == {n}

AddNotify(ntf, n) == ntf \cup {n}

\* for _, x := range task.Notify() { r.AddNotify(x) }
RECURSIVE AddNotifyAll(_, _)
AddNotifyAll(ntf, names) ==
  IF names = {} THEN ntf
  ELSE LET x == CHOOSE y \in names : TRUE
       IN  AddNotifyAll(AddNotify(ntf, x), names \ {x})

ShouldRunHandler(ntf, name) == name \in ntf

\* RunResult{task, res, runtime}: the task (its place and its Notify list), the
\* Result ("ok", or "failed": failed=true and the error text), and, for the
\* claims about writers, the thread that appended it and the dispatch mode.
RunResult(id, t, st, by, mode) ==
  [task |-> id, notify |-> t.notify, st |-> st, by |-> by, mode |-> mode]

\* if err != nil { res = NewResult(false); failed = true; error = err.Error() }
FinalResult(out) == IF out = "fail" THEN "failed" ELSE "ok"

\* The res that cmd.Run returned, which is what fs.Set(name, res) binds.
Returned(out) == IF out = "fail" THEN "nil" ELSE "ok"

\* if err == nil { for _, x := range task.Notify() { r.AddNotify(x) } }
NotifyOnSuccess(ntf, out, names) == IF out = "ok" THEN AddNotifyAll(ntf, names) ELSE ntf

\* One cmd.Run(ce, str) on the calling thread: the expanded name and args that
\* r.report.StartTask was given and the command was run with.
Exec(id, name, str) == [task |-> id, name |-> name, args |-> str]

\* The part of the Runner a call of runTask works on, with what the call returned
\* in ret: "nil", "err", "panic", or "module" (a ModuleRun is to be run).
Runner(ret) ==
  [res |-> Results, ntf |-> to_notify, reg |-> registered, wait |-> wait,
   fsr |-> fsreg, futs |-> futs, acts |-> acts, fatal |-> fatal,
   ex |-> <<>>, ret |-> ret]

Fatal(S) == [S EXCEPT !.ret = "err", !.fatal = TRUE]

\* NewFuture(start, task, producer): the producer is started on its own thread.
NewFuture(id, sc, t) ==
  [id |-> id, scope |-> sc, cmd |-> t.cmd, notify |-> t.notify,
   st |-> "Pending", calls |-> 0, result |-> "none",
   mi |-> 0, pend |-> FALSE, snap |-> <<>>, pntf |-> {}]

\* &AsyncAction{Task: task}
NewAsyncAction(id, sc, t) ==
  [id |-> id, scope |-> sc, cmd |-> t.cmd, notify |-> t.notify,
   st |-> "spawned", out |-> "none", mi |-> 0, pend |-> FALSE, snap |-> <<>>, pntf |-> {}]

\* What ModuleRun.Run returns when ParseSimpleMap rejects the args: the error,
\* from the first pass of its loop, if the module has a task at all.
ParseFails(t) == t.cmd = "modbad" /\ ModLen > 0

\* The outcome of the k-th execution of a task's command.
RunOutcome(t, k) == IF ParseFails(t) THEN "fail" ELSE t.outs[k]

\* ------------------------------------------------------------------ runTask
\* The synchronous branch putting its RunResult at the head of r.Results.
SyncFinish_Prepend(t, id, by, out, S) ==
  [S EXCEPT !.reg = IF t.register # "" THEN Returned(out) ELSE @,
            !.res = <<RunResult(id, t, FinalResult(out), by, "sync")>> \o @,
            !.ntf = NotifyOnSuccess(@, out, t.notify)]

\* The synchronous branch after cmd.Run has returned.
SyncFinish(t, id, by, out, S) ==
  [S EXCEPT !.reg = IF t.register # "" THEN Returned(out) ELSE @,
            !.res = Append(@, RunResult(id, t, FinalResult(out), by, "sync")),
            !.ntf = NotifyOnSuccess(@, out, t.notify)]

\* The item loop expanding the name and the args against the scope it was
\* given instead of the child scope that binds `item`.
RECURSIVE runTaskItems_ParentScope(_, _, _, _, _, _, _)
runTaskItems_ParentScope(t, id, by, s, fsnil, k, S) ==
  IF k > Len(t.items) THEN [S EXCEPT !.ret = "nil"]
  ELSE
    LET name == ExpandVars(s, "name")
        str  == ExpandVars(s, "args")
        out  == t.outs[k]
        S1   == [S EXCEPT !.ex = Append(@, Exec(id, name, str))]
        S2   == [S1 EXCEPT
                   !.reg = IF t.register # "" THEN Returned(out) ELSE @,
                   !.res = Append(@, RunResult(id, t, FinalResult(out), by, "item")),
                   !.ntf = NotifyOnSuccess(@, out, t.notify)]
    IN  IF t.err # "none" /\ t.errAt = k THEN Fatal(S)
        ELSE IF t.register # "" /\ fsnil THEN [S1 EXCEPT !.ret = "panic"]
        ELSE runTaskItems_ParentScope(t, id, by, s, fsnil, k + 1, S2)

RECURSIVE runTaskItems(_, _, _, _, _, _, _)
runTaskItems(t, id, by, s, fsnil, k, S) ==
  IF k > Len(t.items) THEN [S EXCEPT !.ret = "nil"]
  ELSE
    LET ns   == SetVar(NewNestedScope(s), "item", t.items[k])
        name == ExpandVars(ns, "name")
        str  == ExpandVars(ns, "args")
        out  == t.outs[k]
        S1   == [S EXCEPT !.ex = Append(@, Exec(id, name, str))]
        S2   == [S1 EXCEPT
                   !.reg = IF t.register # "" THEN Returned(out) ELSE @,
                   !.res = Append(@, RunResult(id, t, FinalResult(out), by, "item")),
                   !.ntf = NotifyOnSuccess(@, out, t.notify)]
    IN  IF t.err # "none" /\ t.errAt = k THEN Fatal(S)
        ELSE IF t.register # "" /\ fsnil THEN [S1 EXCEPT !.ret = "panic"]
        ELSE runTaskItems(t, id, by, s, fsnil, k + 1, S2)

\* fs.Get("f1"): the memoized Result of the future under that name, or, when
\* the scope has none, what the variable is otherwise bound to.
ReadFuture(t, sc, S) ==
  IF ~t.reads THEN ""
  ELSE IF S.fsr[sc] # 0 THEN S.futs[S.fsr[sc]].result
  ELSE "unset"

\* The future branch running the command itself before it hands the closure to
\* NewFuture.
DispatchFuture_RunsTwice(t, id, sc, fsnil, S) ==
  IF fsnil
  THEN [S EXCEPT !.futs = Append(@, [NewFuture(id, sc, t) EXCEPT !.calls = 1]),
                 !.ret = "panic"]
  ELSE [S EXCEPT !.futs = Append(@, [NewFuture(id, sc, t) EXCEPT !.calls = 1]),
                 !.fsr[sc] = Len(S.futs) + 1,
                 !.ret = "nil"]

DispatchFuture(t, id, sc, fsnil, S) ==
  IF fsnil
  THEN [S EXCEPT !.futs = Append(@, NewFuture(id, sc, t)), !.ret = "panic"]
  ELSE [S EXCEPT !.futs = Append(@, NewFuture(id, sc, t)),
                 !.fsr[sc] = Len(S.futs) + 1,
                 !.ret = "nil"]

DispatchAsync(t, id, sc, S) ==
  [S EXCEPT !.wait = @ + 1,
            !.acts = Append(@, NewAsyncAction(id, sc, t)),
            !.ret = "nil"]

\* The synchronous branch with `res, err = cmd.Run(...)`: the command's error
\* is assigned to the err that runTask returns.
DispatchSync_ReturnsErr(t, id, by, sc, fsnil, S) ==
  LET out == RunOutcome(t, 1)
      s   == SetVar(PlayVars, "f1", ReadFuture(t, sc, S))
      S1  == [S EXCEPT !.ex = Append(@, Exec(id, ExpandVars(s, "name"),
                                              ExpandVars(s, "args")))]
  IN  IF t.cmd = "module" THEN [S1 EXCEPT !.ret = "module"]
      ELSE IF t.register # "" /\ fsnil THEN [S1 EXCEPT !.ret = "panic"]
      ELSE [SyncFinish(t, id, by, out, S1) EXCEPT
              !.ret = IF out = "fail" THEN "err" ELSE "nil"]

DispatchSync(t, id, by, sc, fsnil, S) ==
  LET out == RunOutcome(t, 1)
      s   == SetVar(PlayVars, "f1", ReadFuture(t, sc, S))
      S1  == [S EXCEPT !.ex = Append(@, Exec(id, ExpandVars(s, "name"),
                                              ExpandVars(s, "args")))]
  IN  IF t.cmd = "module" THEN [S1 EXCEPT !.ret = "module"]
      ELSE IF t.register # "" /\ fsnil THEN [S1 EXCEPT !.ret = "panic"]
      ELSE [SyncFinish(t, id, by, out, S1) EXCEPT !.ret = "nil"]

\* runTask testing task.Async() before task.Future().
runTask_AsyncFirst(t, id, by, sc, fsnil, S) ==
  IF t.when = "err" THEN Fatal(S)
  ELSE IF t.when # "none" /\ ~boolify(t.when) THEN [S EXCEPT !.ret = "nil"]
  ELSE IF t.hasItems THEN runTaskItems(t, id, by, PlayVars, fsnil, 1, S)
  ELSE IF t.err # "none" THEN Fatal(S)
  ELSE IF t.async THEN DispatchAsync(t, id, sc, S)
  ELSE IF t.future # "" THEN DispatchFuture(t, id, sc, fsnil, S)
  ELSE DispatchSync(t, id, by, sc, fsnil, S)

\* runTask(env, play, task, s, fs), called by thread `by` with the scope sc;
\* fsnil: fs is nil, as it is in every call ModuleRun.Run makes.
runTask(t, id, by, sc, fsnil, S) ==
  IF t.when = "err" THEN Fatal(S)
  ELSE IF t.when # "none" /\ ~boolify(t.when) THEN [S EXCEPT !.ret = "nil"]
  ELSE IF t.hasItems THEN runTaskItems(t, id, by, PlayVars, fsnil, 1, S)
  ELSE IF t.err # "none" THEN Fatal(S)
  ELSE IF t.future # "" THEN DispatchFuture(t, id, sc, fsnil, S)
  ELSE IF t.async THEN DispatchAsync(t, id, sc, S)
  ELSE DispatchSync(t, id, by, sc, fsnil, S)

\* ------------------------------------------------------------------ actions
Phase == IF pc = "handlers" THEN 2 ELSE 1

Scopes == {1, 2} \X (1..NumPlays)

\* The FutureScope Run made for the play it is at.
CurScope == <<Phase, play>>

TopId == <<Phase, play, idx, 0>>

\* The task would start a thread.
Spawns(t) ==
  /\ t.when = "none" \/ (t.when # "err" /\ boolify(t.when))
  /\ ~t.hasItems /\ t.err = "none"
  /\ t.future # "" \/ t.async

BgRoom(t) == Spawns(t) => Len(futs) + Len(acts) < MaxBg

\* The task would run a module.
RunsModule(t) ==
  /\ t.when = "none" \/ (t.when # "err" /\ boolify(t.when))
  /\ ~t.hasItems /\ t.err = "none"
  /\ t.cmd \in {"module", "modbad"}

ModRoom(t) == RunsModule(t) => nmods < MaxMods

\* Expanding a template that names a future blocks until the future is Resolved.
CanRead(t, sc) == (t.reads /\ fsreg[sc] # 0) => futs[fsreg[sc]].st = "Resolved"

\* The controlling thread is at a point where it shares nothing: between two
\* tasks, inside a module, blocked, or gone.  Threads are interleaved at these
\* points; the steps in between touch only the loop variables of Run.
Yield == pc # "panic" /\ (stage # "ran" \/ pc = "aborted")

Put(S) ==
  /\ Results' = S.res
  /\ to_notify' = S.ntf
  /\ registered' = S.reg
  /\ wait' = S.wait
  /\ fsreg' = S.fsr
  /\ futs' = S.futs
  /\ acts' = S.acts
  /\ fatal' = S.fatal

Init ==
  /\ pc = "idle" /\ play = 1 /\ idx = 1 /\ stage = "fetch"
  /\ task = NoTask /\ execd = <<>> /\ frame = 0
  /\ Results = <<>> /\ to_notify = {} /\ wait = 0 /\ registered = "unset"
  /\ fsreg = [sc \in Scopes |-> 0]
  /\ futs = <<>> /\ acts = <<>> /\ lsn = 0
  /\ report = <<>>
  /\ hruns = [p \in 1..NumPlays |-> [h \in 1..Len(Handlers(p)) |-> 0]]
  /\ ntasks = 0 /\ nmods = 0
  /\ fatal = FALSE

\* Run: r.report.StartTasks(r)
Start ==
  /\ pc = "idle"
  /\ pc' = "tasks"
  /\ report' = Append(report, "StartTasks")
  /\ UNCHANGED <<play, idx, stage, task, execd, frame, hruns, ntasks, nmods, pure, shared>>

\* err := r.runTask(env, play, task, fs, fs); if err != nil { return err }
Call(t) ==
  LET S == runTask(t, TopId, "main", CurScope, FALSE, Runner("nil"))
  IN  /\ CanRead(t, CurScope)
      /\ BgRoom(t)
      /\ ModRoom(t)
      /\ nmods' = IF RunsModule(t) THEN nmods + 1 ELSE nmods
      /\ task' = t
      /\ execd' = S.ex
      /\ Put(S)
      /\ pc' = IF S.ret = "err" THEN "aborted" ELSE pc
      /\ stage' = IF S.ret = "module" THEN "module" ELSE "ran"
      /\ frame' = IF S.ret = "module" THEN 1 ELSE 0
      /\ UNCHANGED <<play, idx, report, lsn, pure>>

\* Run, lines 72-77: the next task of the play.
RunTask ==
  /\ pc = "tasks" /\ stage = "fetch" /\ ntasks < MaxTasks
  /\ \E t \in TaskShapes : Call(t)
  /\ ntasks' = ntasks + 1
  /\ UNCHANGED hruns

\* The step of the task loop, and of the handler loop.
Advance ==
  /\ pc \in {"tasks", "handlers"} /\ stage = "ran"
  /\ idx' = idx + 1
  /\ stage' = "fetch"
  /\ task' = NoTask
  /\ execd' = <<>>
  /\ UNCHANGED <<pc, play, frame, report, hruns, ntasks, nmods, pure, shared>>

\* fs.Results(): the RunResults of the scope's futures that are Resolved.
FutureResults(sc) ==
  IF fsreg[sc] # 0 /\ futs[fsreg[sc]].st = "Resolved"
  THEN <<RunResult(futs[fsreg[sc]].id, futs[fsreg[sc]], futs[fsreg[sc]].result,
                   "main", "future")>>
  ELSE <<>>

\* fs.Wait(): every future of the scope is Resolved.
FutureScopeWait(sc) == fsreg[sc] # 0 => futs[fsreg[sc]].st = "Resolved"

\* Run without its r.wait.Wait().
WaitDone_NoWait(w) == TRUE

\* r.wait.Wait()
WaitDone(w) == w = 0

\* Run leaving the task loop for the barrier after the tasks of any play.
PlayTasksDone_AnyPlay ==
  /\ pc = "tasks" /\ stage = "fetch"
  /\ Results' = Results \o FutureResults(CurScope)
  /\ pc' = "barrier"
  /\ report' = Append(report, "FinishTasks")
  /\ UNCHANGED <<play, idx>>
  /\ UNCHANGED <<stage, task, execd, frame, hruns, ntasks, nmods, pure, to_notify, wait,
                 registered, fsreg, futs, acts, lsn, fatal>>

\* Run, lines 79-82: the play declares no further task.
PlayTasksDone ==
  /\ pc = "tasks" /\ stage = "fetch"
  /\ Results' = Results \o FutureResults(CurScope)
  /\ IF play < NumPlays
     THEN /\ play' = play + 1 /\ idx' = 1
          /\ UNCHANGED <<pc, report>>
     ELSE /\ pc' = "barrier"
          /\ report' = Append(report, "FinishTasks")
          /\ UNCHANGED <<play, idx>>
  /\ UNCHANGED <<stage, task, execd, frame, hruns, ntasks, nmods, pure, to_notify, wait,
                 registered, fsreg, futs, acts, lsn, fatal>>

\* Run, lines 84-86.
Barrier ==
  /\ pc = "barrier"
  /\ WaitDone(wait)
  /\ pc' = "handlers"
  /\ report' = Append(report, "StartHandlers")
  /\ play' = 1 /\ idx' = 1
  /\ UNCHANGED <<stage, task, execd, frame, hruns, ntasks, nmods, pure, shared>>

\* Run, lines 91-98: a handler that was notified.
RunHandler ==
  /\ pc = "handlers" /\ stage = "fetch" /\ idx <= Len(Handlers(play))
  /\ ShouldRunHandler(to_notify, Handlers(play)[idx])
  /\ \E t \in HandlerShapes : Call(t)
  /\ hruns' = [hruns EXCEPT ![play][idx] = @ + 1]
  /\ UNCHANGED ntasks

\* Run, lines 91-92: a handler that was not.
SkipHandler ==
  /\ pc = "handlers" /\ stage = "fetch" /\ idx <= Len(Handlers(play))
  /\ ~ShouldRunHandler(to_notify, Handlers(play)[idx])
  /\ idx' = idx + 1
  /\ UNCHANGED <<pc, play, stage, task, execd, frame, report, hruns, ntasks, nmods, pure, shared>>

\* Run, lines 101-106: the end of a play's handlers.
PlayHandlersDone ==
  /\ pc = "handlers" /\ stage = "fetch" /\ idx > Len(Handlers(play))
  /\ FutureScopeWait(CurScope)
  /\ IF play < NumPlays
     THEN /\ play' = play + 1 /\ idx' = 1
          /\ UNCHANGED <<pc, report>>
     ELSE /\ pc' = "done"
          /\ report' = Append(report, "FinishHandlers")
          /\ UNCHANGED <<play, idx>>
  /\ UNCHANGED <<stage, task, execd, frame, hruns, ntasks, nmods, pure, shared>>

\* --------------------------------------------------------------- ModuleRun
\* The task ModuleRun.Run is at, as the mi-th task of the module that `id` runs.
SubId(id, mi) == <<id[1], id[2], id[3], mi>>

\* m.Runner.runTask(env.Env, m.Play, task, ns, m.FutureScope): m.FutureScope is
\* never set, and what runTask returns is dropped.
SubCall(t, id, by, sc) == runTask(t, id, by, sc, TRUE, Runner("nil"))

\* ModuleRun.Run, on the controlling thread: the next task of the module.
ModuleTask ==
  /\ pc \in {"tasks", "handlers"} /\ stage = "module" /\ frame <= ModLen
  /\ \E t \in SubShapes :
       LET S == SubCall(t, SubId(TopId, frame), "main", CurScope)
       IN  /\ CanRead(t, CurScope)
           /\ BgRoom(t)
           /\ Put(S)
           /\ execd' = execd \o S.ex
           /\ pc' = IF S.ret = "panic" THEN "panic" ELSE pc
  /\ frame' = frame + 1
  /\ UNCHANGED <<play, idx, stage, task, report, hruns, ntasks, nmods, pure, lsn>>

\* ModuleRun.Run handing on the error of a sub-task's runTask.
ModuleReturn_Propagates ==
  /\ pc \in {"tasks", "handlers"} /\ stage = "module" /\ frame > ModLen
  /\ Put(SyncFinish(task, TopId, "main", IF fatal THEN "fail" ELSE "ok", Runner("nil")))
  /\ stage' = "ran"
  /\ frame' = 0
  /\ UNCHANGED <<pc, play, idx, task, execd, report, hruns, ntasks, nmods, pure, lsn>>

\* ModuleRun.Run returns NewResult(true), nil to the synchronous branch of runTask.
ModuleReturn ==
  /\ pc \in {"tasks", "handlers"} /\ stage = "module" /\ frame > ModLen
  /\ Put(SyncFinish(task, TopId, "main", "ok", Runner("nil")))
  /\ stage' = "ran"
  /\ frame' = 0
  /\ UNCHANGED <<pc, play, idx, task, execd, report, hruns, ntasks, nmods, pure, lsn>>

\* The same call made by a thread other than the controlling one.  Its append to
\* r.Results is not synchronised with the appends of the other threads: the
\* slice it read (snap) is written back, with the RunResult, in a later step.
BgModuleTask(th, by, t) ==
  LET S   == SubCall(t, SubId(th.id, th.mi), by, th.scope)
      app == Len(S.res) > Len(Results)
  IN  [S EXCEPT !.res = Results, !.ntf = to_notify,
                !.ex = [th EXCEPT !.mi = IF app THEN @ ELSE @ + 1,
                                  !.pend = app,
                                  !.snap = IF app THEN S.res ELSE <<>>,
                                  !.pntf = S.ntf \ to_notify]]

\* The write of an unsynchronised append: the slice read, with the RunResult
\* (what other threads appended meanwhile is lost), or, when another thread wrote
\* meanwhile, that thread's slice (this RunResult is lost).
RacyAppend(cur, snap) ==
  {snap} \cup (IF cur # SubSeq(snap, 1, Len(snap) - 1) THEN {cur} ELSE {})

BgWritten(th) == [th EXCEPT !.mi = @ + 1, !.pend = FALSE, !.snap = <<>>, !.pntf = {}]

InModule(th) == th.cmd = "module" /\ th.mi \in 1..ModLen /\ ~th.pend

\* ------------------------------------------------------------------ futures
\* The producer of a future starts: func() { return cmd.Run(ce, str) }.
FutureStart(i) ==
  /\ Yield /\ futs[i].st = "Pending"
  /\ futs' = [futs EXCEPT ![i].st = "Running", ![i].calls = @ + 1,
                          ![i].mi = IF futs[i].cmd = "module" THEN 1 ELSE 0]
  /\ UNCHANGED <<ctl, pure, Results, to_notify, wait, registered, fsreg, acts, lsn, fatal>>

\* The producer is inside ModuleRun.Run.
FutureModuleTask(i) ==
  /\ Yield /\ futs[i].st = "Running" /\ InModule(futs[i])
  /\ \E t \in SubShapes :
       LET S == BgModuleTask(futs[i], "future", t)
       IN  /\ CanRead(t, futs[i].scope)
           /\ BgRoom(t)
           /\ Put([S EXCEPT !.futs[i] = S.ex])
           /\ pc' = IF S.ret = "panic" THEN "panic" ELSE pc
  /\ UNCHANGED <<play, idx, stage, task, execd, frame, report, hruns, ntasks, nmods, pure, lsn>>

FutureModuleWrite(i) ==
  /\ Yield /\ futs[i].st = "Running" /\ futs[i].pend
  /\ Results' \in RacyAppend(Results, futs[i].snap)
  /\ to_notify' = to_notify \cup futs[i].pntf
  /\ futs' = [futs EXCEPT ![i] = BgWritten(@)]
  /\ UNCHANGED <<ctl, pure, wait, registered, fsreg, acts, lsn, fatal>>

\* What the command of a background task can return.
BgOutcomes(th) ==
  IF th.cmd = "builtin" THEN Outcomes
  ELSE IF ParseFails(th) THEN {"fail"} ELSE {"ok"}

\* The producer returns: the future is Resolved, an error into a failed Result.
FutureResolve(i) ==
  /\ Yield /\ futs[i].st = "Running" /\ ~futs[i].pend
  /\ futs[i].cmd = "module" => futs[i].mi > ModLen
  /\ \E o \in BgOutcomes(futs[i]) :
       futs' = [futs EXCEPT ![i].st = "Resolved", ![i].result = FinalResult(o)]
  /\ UNCHANGED <<ctl, pure, Results, to_notify, wait, registered, fsreg, acts, lsn, fatal>>

\* ------------------------------------------------------------ async actions
\* go func() { asyncAction.Finish(cmd.Run(ce, str)) }(): cmd.Run is entered, and
\* a builtin returns.
AsyncRun(i) ==
  /\ Yield /\ acts[i].st = "spawned"
  /\ IF acts[i].cmd = "module"
     THEN acts' = [acts EXCEPT ![i].st = "running", ![i].mi = 1]
     ELSE \E o \in BgOutcomes(acts[i]) :
            acts' = [acts EXCEPT ![i].st = "returned", ![i].out = o]
  /\ UNCHANGED <<ctl, pure, Results, to_notify, wait, registered, fsreg, futs, lsn, fatal>>

AsyncModuleTask(i) ==
  /\ Yield /\ acts[i].st = "running" /\ InModule(acts[i])
  /\ \E t \in SubShapes :
       LET S == BgModuleTask(acts[i], "async", t)
       IN  /\ CanRead(t, acts[i].scope)
           /\ BgRoom(t)
           /\ Put([S EXCEPT !.acts[i] = S.ex])
           /\ pc' = IF S.ret = "panic" THEN "panic" ELSE pc
  /\ UNCHANGED <<play, idx, stage, task, execd, frame, report, hruns, ntasks, nmods, pure, lsn>>

AsyncModuleWrite(i) ==
  /\ Yield /\ acts[i].st = "running" /\ acts[i].pend
  /\ Results' \in RacyAppend(Results, acts[i].snap)
  /\ to_notify' = to_notify \cup acts[i].pntf
  /\ acts' = [acts EXCEPT ![i] = BgWritten(@)]
  /\ UNCHANGED <<ctl, pure, wait, registered, fsreg, futs, lsn, fatal>>

\* ModuleRun.Run returns on the async thread.
AsyncModuleReturn(i) ==
  /\ Yield /\ acts[i].st = "running" /\ ~acts[i].pend /\ acts[i].mi > ModLen
  /\ acts' = [acts EXCEPT ![i].st = "returned", ![i].out = "ok"]
  /\ UNCHANGED <<ctl, pure, Results, to_notify, wait, registered, fsreg, futs, lsn, fatal>>

\* asyncAction.Finish(res, err): the action goes to the listener over r.async,
\* an unbuffered channel, when the listener is receiving.
AsyncFinish(i) ==
  /\ Yield /\ acts[i].st = "returned" /\ lsn = 0
  /\ lsn' = i
  /\ acts' = [acts EXCEPT ![i].st = "handed"]
  /\ UNCHANGED <<ctl, pure, Results, to_notify, wait, registered, fsreg, futs, fatal>>

\* handleAsync, the listener NewRunner starts: it records the completion it
\* received (the RunResult, the Notify names of a success) and counts it off.
HandleAsync ==
  /\ Yield /\ lsn # 0
  /\ Results' = Append(Results, RunResult(acts[lsn].id, acts[lsn],
                                          FinalResult(acts[lsn].out), "listener", "async"))
  /\ to_notify' = NotifyOnSuccess(to_notify, acts[lsn].out, acts[lsn].notify)
  /\ wait' = wait - 1
  /\ acts' = [acts EXCEPT ![lsn].st = "finished"]
  /\ lsn' = 0
  /\ UNCHANGED <<ctl, pure, registered, fsreg, futs, fatal>>

Next ==
  \/ Start
  \/ RunTask
  \/ Advance
  \/ PlayTasksDone
  \/ Barrier
  \/ RunHandler
  \/ SkipHandler
  \/ PlayHandlersDone
  \/ ModuleTask
  \/ ModuleReturn
  \/ \E i \in 1..Len(futs) : FutureStart(i)
  \/ \E i \in 1..Len(futs) : FutureModuleTask(i)
  \/ \E i \in 1..Len(futs) : FutureModuleWrite(i)
  \/ \E i \in 1..Len(futs) : FutureResolve(i)
  \/ \E i \in 1..Len(acts) : AsyncRun(i)
  \/ \E i \in 1..Len(acts) : AsyncModuleTask(i)
  \/ \E i \in 1..Len(acts) : AsyncModuleWrite(i)
  \/ \E i \in 1..Len(acts) : AsyncModuleReturn(i)
  \/ \E i \in 1..Len(acts) : AsyncFinish(i)
  \/ HandleAsync

\* No PriorityScope, no process result and no copy is under test during a run.
Unused == ps = [op |-> "none"] /\ sh = [op |-> "none"] /\ cp = [op |-> "none"]

\* NewRunner, with nothing else under test.
InitRun == Init /\ Unused

Spec == InitRun /\ [][Next]_vars

\* ------------------------------------------------------------------ properties
\* The When clause of the task lets it run.
PassesWhen(t) == t.when = "none" \/ (t.when # "err" /\ boolify(t.when))

\* The step in which Run calls runTask for a task or a handler.
CallStep == stage = "fetch" /\ stage' # "fetch"

\* The RunResults a step appended.
Appended == SubSeq(Results', Len(Results) + 1, Len(Results'))

\* C1: a task whose When clause expands to "", "false" or "no" runs no command,
\* appends no RunResult and adds no notify name, in either phase and whatever
\* its Items, Future, Async, Register and Notify are.
C1_WhenFalseSkips ==
  [][(CallStep /\ task'.when \in FalseTexts)
       => /\ execd' = <<>>
          /\ Results' = Results
          /\ to_notify' = to_notify
          /\ UNCHANGED <<wait, registered, fsreg, futs, acts, pc>>]_vars

C1_Witness ==
  /\ stage = "ran" /\ task.when \in FalseTexts
  /\ task.hasItems /\ task.future # "" /\ task.async
  /\ task.register # "" /\ task.notify # {}
  /\ Results # <<>>

\* C2: when the command of a synchronously dispatched task (a plain task, or a
\* sub-execution of an item loop) returns an error, one RunResult with
\* failed=true is appended for that execution, no Notify name is added on its
\* account, runTask returns no error and the task loop goes on.
C2_SyncFailureContinues ==
  [][(/\ CallStep /\ PassesWhen(task') /\ task'.err = "none"
      /\ task'.cmd = "builtin"
      /\ task'.hasItems \/ (task'.future = "" /\ ~task'.async))
       => /\ SubSeq(Results', 1, Len(Results)) = Results
          /\ Len(Appended) = Len(task'.outs)
          /\ \A k \in 1..Len(task'.outs) :
                /\ Appended[k].task = TopId
                /\ task'.outs[k] = "fail" <=> Appended[k].st = "failed"
          /\ (\A k \in 1..Len(task'.outs) : task'.outs[k] = "fail")
                => to_notify' = to_notify
          /\ pc' = pc /\ stage' = "ran"]_vars

C2_Witness ==
  /\ Len(Results) >= 2
  /\ Results[1].task = <<1, 1, 1, 0>> /\ Results[1].mode = "sync"
  /\ Results[1].st = "failed" /\ Results[1].notify # {}
  /\ Results[2].task = <<1, 1, 2, 0>> /\ Results[2].mode = "sync"
  /\ to_notify = {}


\* C3: in a run that reaches the end of the handler phase, every declared
\* handler that a successful task of the task phase named in its Notify list
\* (a task of the plays, recorded by the controlling thread or the listener,
\* whatever its dispatch mode) was executed, and no handler more than once.
C3_NotifiedHandlersRun ==
  pc = "done" =>
    \A p \in 1..NumPlays : \A h \in 1..Len(Handlers(p)) :
      /\ hruns[p][h] <= 1
      /\ (\E k \in 1..Len(Results) :
            /\ Results[k].task[1] = 1 /\ Results[k].task[4] = 0
            /\ Results[k].by \in {"main", "listener"}
            /\ Results[k].st = "ok"
            /\ Handlers(p)[h] \in Results[k].notify)
           => hruns[p][h] = 1

\* C4: once a call of runTask, for a task of a play or of a module, has
\* returned a scheduler-fatal error, the run is over.
C4_FatalAborts == fatal => pc \in {"aborted", "panic"}

\* C5: when the controlling thread passes the barrier, every AsyncAction
\* dispatched so far is finished: as many completions as dispatches.
C5_BarrierAwaitsAsync ==
  [][(pc = "barrier" /\ pc' = "handlers")
       => /\ \A i \in 1..Len(acts) : acts[i].st = "finished"
          /\ Cardinality({k \in 1..Len(Results) : Results[k].mode = "async"}) <= Len(acts)
          /\ lsn = 0]_vars

C5_Witness ==
  /\ pc = "handlers"
  /\ Len(acts) = MaxBg
  /\ \A i \in 1..Len(acts) : acts[i].id[1] = 1 /\ acts[i].st = "finished"
  /\ \E k \in 1..Len(Results) : Results[k].by = "listener"

\* C6: every RunResult of r.Results was appended by the controlling thread or
\* by the listener.
C6_OnlyMainAndListenerAppend ==
  \A k \in 1..Len(Results) : Results[k].by \in {"main", "listener"}

\* C7: an item loop over N values whose expansions and command resolution
\* succeed executes the command N times, the k-th time with the name and the
\* args expanded with `item` bound to the k-th value, appends one RunResult per
\* execution and dispatches nothing else; it is over when runTask returns.
C7_ItemLoop ==
  [][(CallStep /\ PassesWhen(task') /\ task'.hasItems /\ task'.err = "none")
       => /\ Len(execd') = Len(task'.items)
          /\ \A k \in 1..Len(task'.items) :
                execd'[k] = Exec(TopId, <<"name", task'.items[k], "">>,
                                        <<"args", task'.items[k], "">>)
          /\ Len(Appended) = Len(task'.items)
          /\ \A k \in 1..Len(task'.items) :
                Appended[k].task = TopId /\ Appended[k].mode = "item"
          /\ stage' = "ran"
          /\ UNCHANGED <<futs, acts, wait, fsreg>>]_vars

C7_Witness ==
  /\ stage = "ran" /\ task.hasItems /\ task.items = <<"b", "a">>
  /\ task.future # "" /\ task.async
  /\ Len(execd) = 2 /\ execd[1].args[2] = "b" /\ execd[2].args[2] = "a"
  /\ Len(Results) >= 3

\* The place of a task in the run: phase, play, index in the play.
Before(a, b) ==
  \/ a[1] < b[1]
  \/ a[1] = b[1] /\ a[2] < b[2]
  \/ a[1] = b[1] /\ a[2] = b[2] /\ a[3] < b[3]

\* C8: the RunResults of synchronously dispatched tasks stand in r.Results in
\* the order in which the tasks were dispatched.
C8_SyncOrder ==
  \A i, j \in 1..Len(Results) :
    (/\ i < j
     /\ Results[i].by = "main" /\ Results[i].mode \in {"sync", "item"}
     /\ Results[j].by = "main" /\ Results[j].mode \in {"sync", "item"})
      => ~Before(Results[j].task, Results[i].task)

C8_Witness ==
  /\ Len(Results) = 3
  /\ Results[1].by = "main" /\ Results[1].mode = "sync"
  /\ Results[2].by = "listener"
  /\ Results[3].by = "main" /\ Results[3].mode = "sync"
  /\ Before(Results[1].task, Results[3].task)
  /\ Before(Results[2].task, Results[1].task)

\* C9: when Run returns nil, every Future created during the run is Resolved.
C9_FuturesResolvedAtDone ==
  pc = "done" => \A i \in 1..Len(futs) : futs[i].st = "Resolved"

Hooks == <<"StartTasks", "FinishTasks", "StartHandlers", "FinishHandlers">>

\* C11: tasks are dispatched only in the task phase, before any handler; the
\* task phase ends after the tasks of the last play; a handler is executed only
\* after the barrier was passed; and the Reporter sees StartTasks, FinishTasks,
\* StartHandlers, FinishHandlers in that order, all four when Run returns nil.
C11_PhaseOrder ==
  [][/\ ntasks' # ntasks
          => /\ pc = "tasks" /\ report = SubSeq(Hooks, 1, 1)
             /\ \A p \in 1..NumPlays : \A h \in 1..Len(Handlers(p)) : hruns[p][h] = 0
     /\ (pc = "tasks" /\ pc' = "barrier") => play = NumPlays
     /\ (pc' = "handlers" /\ pc # "handlers") => pc = "barrier" /\ WaitDone(wait)
     /\ hruns' # hruns => pc = "handlers" /\ report = SubSeq(Hooks, 1, 3)
     /\ Len(report') <= Len(Hooks) /\ report' = SubSeq(Hooks, 1, Len(report'))
     /\ pc' = "done" => report' = Hooks]_vars

C11_Witness ==
  /\ pc = "done" /\ report = Hooks
  /\ ntasks = MaxTasks
  /\ hruns[1][1] = 1 /\ hruns[1][2] = 1
  /\ Len(acts) > 0

\* C12: a task that passes its When check goes through one dispatch mode, by
\* the priority item loop > future > async > synchronous: with Items set no
\* Future and no AsyncAction is made, with a Future name set no AsyncAction is
\* made and nothing is run or recorded on the calling thread.
C12_OneDispatchMode ==
  [][(CallStep /\ PassesWhen(task') /\ task'.err = "none")
       => IF task'.hasItems
          THEN /\ UNCHANGED <<futs, acts, wait, fsreg>>
               /\ Len(execd') = Len(task'.items)
               /\ Len(Appended) = Len(task'.items)
               /\ \A k \in 1..Len(Appended) : Appended[k].mode = "item"
          ELSE IF task'.future # ""
          THEN /\ Len(futs') = Len(futs) + 1
               /\ futs'[Len(futs')].id = TopId
               /\ fsreg'[CurScope] = Len(futs')
               /\ UNCHANGED <<acts, wait, Results, to_notify, registered>>
               /\ execd' = <<>>
          ELSE IF task'.async
          THEN /\ Len(acts') = Len(acts) + 1
               /\ acts'[Len(acts')].id = TopId
               /\ wait' = wait + 1
               /\ UNCHANGED <<futs, fsreg, Results, to_notify, registered>>
               /\ execd' = <<>>
          ELSE /\ UNCHANGED <<futs, acts, wait, fsreg>>
               /\ Len(execd') = 1
               /\ \/ stage' = "module" /\ Results' = Results
                  \/ /\ stage' = "ran" /\ Len(Appended) = 1
                     /\ Appended[1].mode = "sync"]_vars

C12_Witness ==
  /\ stage = "ran" /\ PassesWhen(task) /\ ~task.hasItems /\ task.err = "none"
  /\ task.future # "" /\ task.async
  /\ Len(futs) = 2 /\ acts = <<>> /\ wait = 0

\* ------------------------------------------------------------ PriorityScope
Keys == {"k1", "k2"}
Vals == {"a", "b"}

\* The maps from names to values over a set of names.
Maps(V) == UNION {[D -> V] : D \in SUBSET Keys}

\* Vars, a map from names to raw values: nil, or a map.
VarsMaps == {[nil |-> TRUE, map |-> <<>>]} \cup {[nil |-> FALSE, map |-> m] : m \in Maps(Vals)}

\* Any(v): the Value that holds v; and the Value a failed Get returns.
Any(v)   == <<"Value", v>>
NilValue == <<"nil", "">>

\* A Scope without parent, the fallback of a PriorityScope: names to Values.
FlatScopes == Maps({Any(v) : v \in Vals})

ScopeGet(sc, key) == IF key \in DOMAIN sc THEN <<sc[key], TRUE>> ELSE <<NilValue, FALSE>>

ScopeSet(sc, key, val) == [k \in DOMAIN sc \cup {key} |-> IF k = key THEN Any(val) ELSE sc[k]]

\* func (p *PriorityScope) Get(key string) (Value, bool)
PriorityScopeGet(p, key) ==
  IF ~p.task.nil /\ key \in DOMAIN p.task.map
  THEN <<Any(p.task.map[key]), TRUE>>
  ELSE ScopeGet(p.rest, key)

\* Set writing the overlay when there is one.
PriorityScopeSet_Overlay(p, key, val) ==
  IF ~p.task.nil
  THEN [p EXCEPT !.task.map = [k \in DOMAIN @ \cup {key} |-> IF k = key THEN val ELSE @[k]]]
  ELSE [p EXCEPT !.rest = ScopeSet(@, key, val)]

\* func (p *PriorityScope) Set(key string, val interface{})
PriorityScopeSet(p, key, val) == [p EXCEPT !.rest = ScopeSet(@, key, val)]

\* &PriorityScope{task.IncludeVars, s}, for any overlay and any fallback.
InitScope ==
  /\ Init
  /\ sh = [op |-> "none"] /\ cp = [op |-> "none"]
  /\ \E t \in VarsMaps, r \in FlatScopes :
       ps = [task |-> t, rest |-> r, op |-> "new", key |-> "", got |-> <<NilValue, FALSE>>,
             last |-> <<"", "">>]

CallGet ==
  /\ \E k \in Keys :
       ps' = [ps EXCEPT !.op = "Get", !.key = k, !.got = PriorityScopeGet(ps, k)]
  /\ UNCHANGED <<ctl, shared, sh, cp>>

CallSet ==
  /\ \E k \in Keys, v \in Vals :
       ps' = [PriorityScopeSet(ps, k, v) EXCEPT !.op = "Set", !.key = k, !.last = <<k, v>>]
  /\ UNCHANGED <<ctl, shared, sh, cp>>

NextScope == CallGet \/ CallSet

SpecScope == InitScope /\ [][NextScope]_vars

\* The overlay of the PriorityScope binds the name.
Overlaid(p, k) == ~p.task.nil /\ k \in DOMAIN p.task.map

\* C13: Get(k) returns the overlay's value when the overlay has k and the
\* fallback's Get(k) otherwise; Set(k, v) writes the fallback alone, so that a
\* Get(k) after it still returns the overlay's value when the overlay has k.
C13_PriorityScope ==
  [][/\ ps'.op = "Get"
          => ps'.got = IF Overlaid(ps, ps'.key)
                       THEN <<Any(ps.task.map[ps'.key]), TRUE>>
                       ELSE ScopeGet(ps.rest, ps'.key)
     /\ ps'.op = "Set"
          => /\ ps'.task = ps.task
             /\ DOMAIN ps'.rest = DOMAIN ps.rest \cup {ps'.key}
             /\ \A k \in DOMAIN ps'.rest :
                  ps'.rest[k] = IF k = ps'.key THEN Any(ps'.last[2]) ELSE ps.rest[k]
             /\ PriorityScopeGet(ps', ps'.key) =
                  IF Overlaid(ps, ps'.key)
                  THEN <<Any(ps.task.map[ps'.key]), TRUE>>
                  ELSE <<Any(ps'.last[2]), TRUE>>]_vars

C13_Witness ==
  /\ ps.op = "Get" /\ ps.last[1] = ps.key
  /\ Overlaid(ps, ps.key)
  /\ ps.key \in DOMAIN ps.rest /\ ps.rest[ps.key] = Any(ps.last[2])
  /\ ps.task.map[ps.key] # ps.last[2]
  /\ ps.got = <<Any(ps.task.map[ps.key]), TRUE>>

\* C14: no step of a run takes a name out of r.to_notify, and a task that
\* notifies only names that are already in it leaves it as it is.
C14_NotifyGrows ==
  [][/\ to_notify \subseteq to_notify'
     /\ (CallStep /\ task'.notify \subseteq to_notify /\ stage' = "ran")
          => to_notify' = to_notify]_vars

C14_Witness ==
  /\ stage = "ran" /\ PassesWhen(task) /\ ~task.hasItems
  /\ task.future = "" /\ ~task.async /\ task.cmd = "builtin" /\ task.err = "none"
  /\ task.outs = <<"ok">> /\ task.notify = {"h1"}
  /\ Len(Results) = 2
  /\ Results[1].mode = "sync" /\ Results[1].st = "ok" /\ Results[1].notify = {"h1", "h2"}
  /\ Results[2].st = "ok"
  /\ to_notify = {"h1", "h2"}

\* ---------------------------------------------------------------------------
\* runCmd and renderShellResult (builtin.go)

SummaryLimit == 60     \* renderShellResult: len(stdout) < 60
MaxChunks    == 3      \* pieces of a captured stdout

\* What a process wrote is a sequence of pieces: a newline, a space, or a run of
\* n characters that are not white space and take b bytes (len counts bytes).
Newline == [c |-> "\n", n |-> 1, b |-> 1]
Space   == [c |-> " ", n |-> 1, b |-> 1]
Word(n, b) == [c |-> "w", n |-> n, b |-> b]
Words ==
  {Word(1, 1), Word(SummaryLimit - 2, SummaryLimit - 2),
   Word(SummaryLimit - 1, SummaryLimit - 1), Word(SummaryLimit, SummaryLimit),
   Word(SummaryLimit \div 2 - 1, SummaryLimit - 2), Word(SummaryLimit \div 2, SummaryLimit)}
Stdouts == SeqsUpTo(Words \cup {Newline, Space}, MaxChunks)
Stderrs == {<<>>, <<Newline>>, <<Word(1, 1)>>}
\* captureCmd: the process exits 0, exits with another status (*exec.ExitError),
\* or could not be run at all.
Exits == {"exit 0", "ExitError", "error"}

RECURSIVE Bytes(_)
Bytes(str) == IF str = <<>> THEN 0 ELSE Head(str).b + Bytes(Tail(str))

RECURSIVE Chars(_)
Chars(str) == IF str = <<>> THEN 0 ELSE Head(str).n + Chars(Tail(str))

IsSpace(ch) == ch.c \in {"\n", " "}

RECURSIVE TrimLeft(_)
TrimLeft(str) ==
  IF str # <<>> /\ IsSpace(Head(str)) THEN TrimLeft(Tail(str)) ELSE str

RECURSIVE TrimRight(_)
TrimRight(str) ==
  IF str # <<>> /\ IsSpace(str[Len(str)])
  THEN TrimRight(SubSeq(str, 1, Len(str) - 1)) ELSE str

\* strings.TrimSpace
TrimSpace(str) == TrimRight(TrimLeft(str))

\* strings.Replace(stdout, "\n", " ", -1)
ReplaceNewlines(str) == [i \in 1..Len(str) |-> IF str[i] = Newline THEN Space ELSE str[i]]

\* fmt.Sprintf(`rc: %d, stdout: "%s"`, rc, stdout), and the empty string.
Sprintf(rc, stdout) == [fmt |-> "rc: %d, stdout: \"%s\"", rc |-> rc, text |-> stdout]
EmptyString == [fmt |-> "", rc |-> 0, text |-> <<>>]

\* Result.Add
ResultAdd(res, key, val) ==
  [k \in DOMAIN res \cup {key} |-> IF k = key THEN val ELSE res[k]]

\* NewResult(true)
NewResult == [k \in {"changed"} |-> TRUE]

\* renderShellResult without the test of the length.
renderShellResult_NoLimit(res) ==
  IF ~({"rc", "stdout", "stderr"} \subseteq DOMAIN res) THEN <<EmptyString, FALSE>>
  ELSE IF res["rc"] = 0 /\ Bytes(res["stdout"]) = 0 /\ Bytes(res["stderr"]) = 0
       THEN <<EmptyString, TRUE>>
  ELSE IF Bytes(res["stderr"]) = 0
       THEN <<Sprintf(res["rc"], ReplaceNewlines(res["stdout"])), TRUE>>
  ELSE <<EmptyString, FALSE>>

renderShellResult(res) ==
  IF ~({"rc", "stdout", "stderr"} \subseteq DOMAIN res) THEN <<EmptyString, FALSE>>
  ELSE IF res["rc"] = 0 /\ Bytes(res["stdout"]) = 0 /\ Bytes(res["stderr"]) = 0
       THEN <<EmptyString, TRUE>>
  ELSE IF Bytes(res["stderr"]) = 0 /\ Bytes(res["stdout"]) < SummaryLimit
       THEN <<Sprintf(res["rc"], ReplaceNewlines(res["stdout"])), TRUE>>
  ELSE <<EmptyString, FALSE>>

\* RunCommand: every exit status but 0 is reported as 1.
ReturnCode(exit) == IF exit = "exit 0" THEN 0 ELSE 1

\* runCmd: the (Result, error) it returns.
runCmd(exit, stdout, stderr) ==
  IF exit = "error" THEN [res |-> <<>>, err |-> "err"]
  ELSE LET r0 == ResultAdd(ResultAdd(ResultAdd(NewResult, "rc", ReturnCode(exit)),
                                     "stdout", TrimSpace(stdout)),
                           "stderr", TrimSpace(stderr))
           rs == renderShellResult(r0)
       IN  [res |-> IF rs[2] THEN ResultAdd(r0, "_result", rs[1]) ELSE r0, err |-> "nil"]

\* A process that has ended, for any exit and any output.
InitShell ==
  /\ Init
  /\ ps = [op |-> "none"] /\ cp = [op |-> "none"]
  /\ \E e \in Exits, o \in Stdouts, x \in Stderrs :
       sh = [op |-> "new", exit |-> e, stdout |-> o, stderr |-> x,
             ret |-> [res |-> <<>>, err |-> "nil"]]

CallRunCmd ==
  /\ sh.op = "new"
  /\ sh' = [sh EXCEPT !.op = "runCmd", !.ret = runCmd(sh.exit, sh.stdout, sh.stderr)]
  /\ UNCHANGED <<ctl, shared, ps, cp>>

NextShell == CallRunCmd

SpecShell == InitShell /\ [][NextShell]_vars

MultiLine(str) == \E i \in 1..Len(str) : str[i] = Newline

\* runCmd has returned a Result for the process.
Ran == sh.op = "runCmd" /\ sh.ret.err = "nil"

HasSummary == "_result" \in DOMAIN sh.ret.res

\* C15 as amended: exit 0 with nothing written gives the empty summary; an
\* empty stderr with a stdout under 60 bytes gives rc: <rc>, stdout: "<text>",
\* the text being the trimmed stdout with each newline replaced by a space,
\* several lines or not; a stdout of 60 bytes or more gives no _result.
C15_Summary ==
  Ran => LET rc     == sh.ret.res["rc"]
             stdout == TrimSpace(sh.stdout)
             stderr == TrimSpace(sh.stderr)
         IN  /\ rc = ReturnCode(sh.exit)
             /\ (rc = 0 /\ stdout = <<>> /\ stderr = <<>>)
                  => HasSummary /\ sh.ret.res["_result"] = EmptyString
             /\ (stderr = <<>> /\ stdout # <<>> /\ Bytes(stdout) < SummaryLimit)
                  => /\ HasSummary
                     /\ sh.ret.res["_result"] = Sprintf(rc, ReplaceNewlines(stdout))
                     /\ ~MultiLine(stdout) => sh.ret.res["_result"].text = stdout
             /\ Bytes(stdout) >= SummaryLimit => ~HasSummary

C15_Witness ==
  /\ Ran /\ sh.exit = "exit 0" /\ TrimSpace(sh.stderr) = <<>>
  /\ MultiLine(TrimSpace(sh.stdout))
  /\ HasSummary
  /\ sh.ret.res["_result"].text # TrimSpace(sh.stdout)
  /\ sh.ret.res["_result"].text = <<Word(1, 1), Space, Word(1, 1)>>

\* C15 as claimed: a stdout of several lines, like one of 60 characters or
\* more, gives no summary, and a short one of one line gives one.
C15_MultiLineNoSummary ==
  Ran => LET stdout == TrimSpace(sh.stdout)
             stderr == TrimSpace(sh.stderr)
         IN  /\ (sh.exit = "exit 0" /\ stdout = <<>> /\ stderr = <<>>)
                  => HasSummary /\ sh.ret.res["_result"] = EmptyString
             /\ (sh.exit = "exit 0" /\ stderr = <<>> /\ stdout # <<>>
                 /\ Chars(stdout) < SummaryLimit /\ ~MultiLine(stdout))
                  => HasSummary /\ sh.ret.res["_result"] = Sprintf(0, stdout)
             /\ (Chars(stdout) >= SummaryLimit \/ MultiLine(stdout)) => ~HasSummary

\* ---------------------------------------------------------------------------
\* CopyCmd.Run (builtin.go)

MaxData == 2     \* bytes of a file under test

\* The paths CopyCmd.Run touches for Src = "src" and Dest = "dest": the file
\* of the source's name inside Dest, the temporary file named after cmd.Dest,
\* and the file a symbolic link at Dest points to.
Paths == {"src", "dest", "dest/src", "dest.tmp", "target"}

Datas  == SeqsUpTo({1, 2}, MaxData)
Modes  == {"0644", "0755"}
Absent == [kind |-> "absent", data |-> <<>>, mode |-> ""]
Dir    == [kind |-> "dir", data |-> <<>>, mode |-> "0755"]
Link   == [kind |-> "symlink", data |-> <<>>, mode |-> "0777"]
File(d, m) == [kind |-> "file", data |-> d, mode |-> m]
Files  == {File(d, m) : d \in Datas, m \in Modes}

\* The file systems a copy may start in.
FileSystems ==
  {f \in [Paths -> Files \cup {Absent, Dir, Link}] :
     /\ f["src"] \in Files \cup {Absent}
     /\ f["dest.tmp"] \in {Absent} \cup {File(d, "0644") : d \in [1..MaxData -> {2}]}
     /\ f["dest"] = Dir \/ f["dest/src"] = Absent
     /\ f["dest/src"] \in Files \cup {Absent}
     /\ IF f["dest"] = Link THEN f["target"] \in Files ELSE f["target"] = Absent}

\* The file a path leads to, a symbolic link followed.
Resolve(f, path) == IF f[path].kind = "symlink" THEN f["target"] ELSE f[path]

RECURSIVE Sum(_)
Sum(d) == IF d = <<>> THEN 0 ELSE Head(d) + Sum(Tail(d))

\* md5: a digest, which files of different content may share.
Md5(d) == Sum(d) % 3

\* md5file: (digest, err == nil).
md5file(f, path) ==
  IF Resolve(f, path).kind = "file" THEN <<Md5(Resolve(f, path).data), TRUE>> ELSE <<0, FALSE>>

\* io.Copy's next write into a file opened without O_TRUNC: byte off + 1 of src.
WriteAt(data, off, b) ==
  IF off + 1 <= Len(data) THEN [data EXCEPT ![off + 1] = b] ELSE Append(data, b)

\* WrapResult(changed, rd), rd carrying dest; or (nil, err).
CopyReturn(changed, err, dest) == [changed |-> changed, err |-> err, dest |-> dest]

InitCopy ==
  /\ Init
  /\ ps = [op |-> "none"] /\ sh = [op |-> "none"]
  /\ \E f \in FileSystems :
       cp = [op |-> "Run", pc |-> "start", fs |-> f, fs0 |-> f, off |-> 0, dest |-> "dest",
             link |-> FALSE, ret |-> CopyReturn(FALSE, "", "")]

\* os.Open, os.Stat and md5file of Src, os.Lstat of Dest, and the comparison
\* of the digests.
CopyCheck ==
  /\ cp.pc = "start"
  /\ LET f    == cp.fs
         stat == f["dest"]
         dest == IF stat.kind = "dir" THEN "dest/src" ELSE "dest"
         dstDigest == IF stat.kind \in {"file", "symlink"} THEN md5file(f, "dest")
                      ELSE <<0, FALSE>>
     IN  cp' = IF f["src"].kind # "file"
               THEN [cp EXCEPT !.pc = "done", !.ret = CopyReturn(FALSE, "err", "")]
               ELSE IF dstDigest[2] /\ dstDigest[1] = Md5(f["src"].data)
               THEN [cp EXCEPT !.pc = "done", !.dest = dest,
                               !.ret = CopyReturn(FALSE, "nil", dest)]
               ELSE [cp EXCEPT !.pc = "open", !.dest = dest,
                               !.link = (stat.kind = "symlink")]
  /\ UNCHANGED <<ctl, shared, ps, sh>>

\* os.OpenFile(tmp, os.O_CREATE|os.O_WRONLY, 0644)
CopyOpen ==
  /\ cp.pc = "open"
  /\ cp' = [cp EXCEPT !.pc = "copy", !.off = 0,
                      !.fs["dest.tmp"] = IF @.kind = "absent" THEN File(<<>>, "0644") ELSE @]
  /\ UNCHANGED <<ctl, shared, ps, sh>>

\* io.Copy(output, input), a write at a time.
CopyWrite ==
  /\ cp.pc = "copy" /\ cp.off < Len(cp.fs["src"].data)
  /\ cp' = [cp EXCEPT !.off = @ + 1,
                      !.fs["dest.tmp"].data = WriteAt(@, cp.off, cp.fs["src"].data[cp.off + 1])]
  /\ UNCHANGED <<ctl, shared, ps, sh>>

\* io.Copy fails: os.Remove(tmp) and the error.
CopyFail ==
  /\ cp.pc = "copy"
  /\ cp' = [cp EXCEPT !.pc = "done", !.fs["dest.tmp"] = Absent,
                      !.ret = CopyReturn(FALSE, "err", "")]
  /\ UNCHANGED <<ctl, shared, ps, sh>>

\* if link { os.Remove(dest) }
CopyUnlink ==
  /\ cp.pc = "copy" /\ cp.off = Len(cp.fs["src"].data)
  /\ cp' = [cp EXCEPT !.pc = "chmod",
                      !.fs[cp.dest] = IF cp.link THEN Absent ELSE @]
  /\ UNCHANGED <<ctl, shared, ps, sh>>

\* os.Chmod(tmp, srcStat.Mode())
CopyChmod ==
  /\ cp.pc = "chmod"
  /\ cp' = [cp EXCEPT !.pc = "rename", !.fs["dest.tmp"].mode = cp.fs["src"].mode]
  /\ UNCHANGED <<ctl, shared, ps, sh>>

\* os.Rename(tmp, dest) and WrapResult(true, rd)
CopyRename ==
  /\ cp.pc = "rename"
  /\ cp' = [cp EXCEPT !.pc = "done", !.fs[cp.dest] = cp.fs["dest.tmp"],
                      !.fs["dest.tmp"] = Absent,
                      !.ret = CopyReturn(TRUE, "nil", cp.dest)]
  /\ UNCHANGED <<ctl, shared, ps, sh>>

NextCopy ==
  \/ CopyCheck
  \/ CopyOpen
  \/ CopyWrite
  \/ CopyFail
  \/ CopyUnlink
  \/ CopyChmod
  \/ CopyRename

SpecCopy == InitCopy /\ [][NextCopy]_vars

\* The path the result reports as dest, from the file system the copy began in.
EffectiveDest == IF cp.fs0["dest"].kind = "dir" THEN "dest/src" ELSE "dest"

\* The file at the effective destination had the source's digest to begin with.
SameDigest ==
  /\ cp.fs0["src"].kind = "file"
  /\ md5file(cp.fs0, EffectiveDest) = <<Md5(cp.fs0["src"].data), TRUE>>

\* C16: when the file at the effective destination has the source's digest, the
\* result is unchanged and nothing is written; otherwise a copy that succeeds
\* leaves there the source's bytes and mode; and the destination path never
\* holds a part of the content.
C16_CopyContract ==
  /\ SameDigest => /\ cp.fs = cp.fs0
                   /\ cp.pc = "done" => cp.ret = CopyReturn(FALSE, "nil", EffectiveDest)
  /\ (~SameDigest /\ cp.pc = "done" /\ cp.ret.err = "nil")
       => /\ cp.ret = CopyReturn(TRUE, "nil", EffectiveDest)
          /\ cp.fs[EffectiveDest] = cp.fs0["src"]
  /\ cp.fs[EffectiveDest] \in {cp.fs0[EffectiveDest], cp.fs0["src"], Absent}

\* ---------------------------------------------------------------------------
\* modules

\* The RunResult is of a task of a module.
SubResult(rr) == rr.task[4] # 0

\* The RunResult a thread inside a module is about to append.
Pending(th) == th.snap[Len(th.snap)]

InResults(rr, res) == \E k \in 1..Len(res) : res[k] = rr

\* C17: the tasks of a module run through the Runner of the calling task,
\* whatever thread the module runs on: the RunResult of each sub-task that ran
\* is in r.Results once the sub-task is over, in the order of the module, the
\* Notify names of a successful sub-task are in r.to_notify, and at the end of
\* the run every handler that a successful sub-task of the task phase named
\* was run.
C17_ModuleSubTasks ==
  [][/\ \A i \in 1..Len(futs) :
          (futs[i].pend /\ ~futs'[i].pend) => InResults(Pending(futs[i]), Results')
     /\ \A i \in 1..Len(acts) :
          (acts[i].pend /\ ~acts'[i].pend) => InResults(Pending(acts[i]), Results')
     /\ (stage = "module" /\ frame' = frame + 1 /\ pc' = pc /\ Results' # Results)
          => /\ Len(Results') = Len(Results) + 1
             /\ SubSeq(Results', 1, Len(Results)) = Results
             /\ Results'[Len(Results')].task = SubId(TopId, frame)
     /\ \A j, k \in 1..Len(Results') :
          (/\ SubResult(Results'[j]) /\ SubResult(Results'[k])
           /\ SubSeq(Results'[j].task, 1, 3) = SubSeq(Results'[k].task, 1, 3)
           /\ Results'[j].task[4] < Results'[k].task[4]) => j < k
     /\ \A k \in 1..Len(Results') :
          (SubResult(Results'[k]) /\ Results'[k].st = "ok")
            => Results'[k].notify \subseteq to_notify'
     /\ pc' = "done"
          => \A k \in 1..Len(Results') :
               (SubResult(Results'[k]) /\ Results'[k].st = "ok" /\ Results'[k].task[1] = 1)
                 => \A p \in 1..NumPlays : \A h \in 1..Len(Handlers(p)) :
                      Handlers(p)[h] \in Results'[k].notify => hruns'[p][h] = 1]_vars

\* C18: when a synchronously dispatched task with a Register name (a plain
\* task or an item loop) has run its command, the name is bound to the Result
\* of the RunResult appended last for it: "ok", or "failed" when the command
\* returned an error.
C18_RegisterBindsResult ==
  [][(/\ CallStep /\ PassesWhen(task') /\ task'.err = "none"
      /\ task'.cmd = "builtin" /\ task'.register # ""
      /\ task'.hasItems \/ (task'.future = "" /\ ~task'.async)
      /\ Len(Appended) > 0)
       => registered' = Appended[Len(Appended)].st]_vars

\* C19: a module-backed task whose arguments parse is recorded as a success
\* when ModuleRun.Run returns, with its Notify names added and the run going
\* on, whatever its sub-tasks did: failed commands, or a scheduler-fatal error.
C19_ModuleAlwaysSucceeds ==
  [][/\ (CallStep /\ PassesWhen(task') /\ ~task'.hasItems /\ task'.err = "none"
         /\ task'.future = "" /\ ~task'.async /\ task'.cmd = "module")
          => stage' = "module" /\ Results' = Results /\ pc' = pc
     /\ (stage = "module" /\ stage' = "ran")
          => /\ task.cmd = "module"
             /\ Appended = <<RunResult(TopId, task, "ok", "main", "sync")>>
             /\ SubSeq(Results', 1, Len(Results)) = Results
             /\ to_notify' = to_notify \cup task.notify
             /\ pc' = pc /\ fatal' = fatal]_vars

C19_Witness ==
  /\ stage = "ran" /\ pc = "tasks" /\ task.cmd = "module" /\ fatal
  /\ task.notify = {"h1"} /\ to_notify = {"h1"}
  /\ Results = <<RunResult(TopId, task, "ok", "main", "sync")>>

\* C20: when Run has returned nil, every AsyncAction dispatched during the run,
\* by a task or by a handler, has made its Finish call.
C20_AsyncFinishedAtDone ==
  pc = "done" => \A i \in 1..Len(acts) : acts[i].st = "finished"

====
